---- MODULE Spec2Model ----
(***************************************************************************)
(* Order / payment lifecycle of the mall plugin (src/main.py): MallPlugin  *)
(* and its DataManager.                                                    *)
(*                                                                         *)
(* The plugin runs on one asyncio event loop: a coroutine runs without     *)
(* interruption from one suspension point (an await that really waits, a   *)
(* yield of a reply to the framework) to the next.  Every action below is  *)
(* one such uninterrupted segment of a handler; the pc fields hold the     *)
(* suspension point a handler is parked at.                                *)
(*                                                                         *)
(* Time is counted in ticks of 1/TicksPerSecond second.  datetime.now()    *)
(* is `now`; the order number only keeps the whole second.                 *)
(***************************************************************************)
EXTENDS Integers, Sequences, FiniteSets, TLC

\* ---------------------------------------------------------------- bounds
MaxTime == 3            \* the clock stops here
TicksPerSecond == 2     \* resolution of the model's clock
MaxOrders == 2          \* order records ever created
MaxQty == 1             \* largest quantity a buy command asks for
InitQty == 1            \* stock of every product at start
MaxCalls == 2           \* payment callbacks counted per order
MaxCartQty == 2         \* largest quantity of one cart line

\* ------------------------------------------------------- program constants
\* config.get('payment_timeout', ...) in seconds (main.py:336); the model
\* runs the shop with a timeout of one second.
payment_timeout == 1
PaymentTimeout == payment_timeout * TicksPerSecond

\* Python's None: for expire_time (a number of ticks otherwise) and for the
\* other fields.
None == -1
NoneStr == "None"

\* What datetime.now() leaves in paid_at, delivered_at and cancelled_at: the
\* model keeps that a datetime was written, not which.
Datetime == "datetime"

\* Users: the sender ids, as digit sequences.
Users == { <<1, 1, 2, 3, 4>>, <<2, 5, 6, 7, 8>> }
NoUser == << >>

\* A second chat of the first user: the sender id followed by the chat.  The
\* waiter of a buy_product call belongs to the chat the command came from.
Elsewhere == << 1, 1, 2, 3, 4, 0 >>

\* event.get_sender_id() of a message in the chat s: a user's first chat is
\* known by the sender id itself.
SenderOf(s) == IF Len(s) = 5 THEN s ELSE SubSeq(s, 1, 5)

\* user_id[-4:]
Suffix(u) == IF Len(u) <= 4 THEN u ELSE SubSeq(u, Len(u) - 3, Len(u))

\* datetime.now().strftime('%Y%m%d%H%M%S'): the time cut to the second.
StrfSeconds(t) == t \div TicksPerSecond

\* f"ORD{datetime.now().strftime('%Y%m%d%H%M%S')}{user_id[-4:]}"
OrderNo(t, u) == << "ORD", StrfSeconds(t), Suffix(u) >>

\* f"CART{datetime.now().strftime('%Y%m%d%H%M%S')}{user_id[-4:]}"
CartNo(t, u) == << "CART", StrfSeconds(t), Suffix(u) >>

OrderNos == { OrderNo(t, u) : t \in 0..MaxTime, u \in Users }
              \cup { CartNo(t, u) : t \in 0..MaxTime, u \in Users }
UnknownNo == << "NONE", 99, << >> >>

\* A Python dict: no entry, d[k] = v, del d[k].
NoEntries == << >>
Put(d, k, v) == (k :> v) @@ d
Del(d, k) == [ x \in DOMAIN d \ { k } |-> d[x] ]

\* The catalogue: product "1" is delivered automatically, product "2" by an
\* operator.  add_product fixes delivery_type; no command changes it.
Products == { "1", "2" }
DeliveryType(p) == IF p = "1" THEN "auto" ELSE "manual"

\* The price of a product, fixed by add_product.
Price(p) == IF p = "1" THEN 3 ELSE 5

OrderIds == 1..MaxOrders
NoOrder == 0

Terminal == { "delivered", "cancelled", "expired" }

VARIABLES
    now,              \* datetime.now(), in ticks
    products,         \* data_manager.products: product id -> record
    order_dict,       \* the order dicts ever created, by object identity
    orders,           \* data_manager.orders: order_no -> the dict it holds
    next_id,          \* identity of the next order dict
    payment_monitors, \* data_manager.payment_monitors: order_no -> task
    timers,           \* the monitor_payment tasks still asleep
    product_locks,    \* self.product_locks: product id -> asyncio.Lock
    temp_orders,      \* self.temp_orders: user id -> pending choice
    flow,             \* per user: where the buy command is parked
    deliver,          \* per order dict: where handle_payment_notify is parked
    hist,             \* history, per order dict (not program state)
    carts,            \* data_manager.carts: user id -> list of items
    cart_flow,        \* per user: where the cart_buy command is parked
    files,            \* the JSON files of the data directory
    writable,         \* whether open(filepath, 'w') succeeds
    payment_methods,  \* data_manager.payment_methods: the enabled ids
    user_emails,      \* data_manager.user_emails: user id -> binding
    verify,           \* self.temp_orders: the entries verify_<user id>
    bind_flow         \* the users whose bind_email awaits the email service

vars == << now, products, order_dict, orders, next_id, payment_monitors, timers,
           product_locks, temp_orders, flow, deliver, hist, carts, cart_flow,
           files, writable, payment_methods, user_emails, verify, bind_flow >>

\* What no handler of the order lifecycle writes.
env == << writable, payment_methods, user_emails, verify, bind_flow >>

\* ------------------------------------------------------------ initial state
\* An order dict that does not exist yet.
NoRecord ==
    [ order_no |-> UnknownNo, user_id |-> NoUser, product_id |-> NoneStr,
      quantity |-> 0, amount |-> 0, status |-> "absent",
      delivery_type |-> NoneStr, cart_items |-> << >>, expire_time |-> None, paid_at |-> NoneStr, delivered_at |-> NoneStr,
      cancelled_at |-> NoneStr, cancelled_by |-> NoneStr ]

\* History of an order dict: the calls of handle_payment_notify for it, from
\* the one that found it pending on (counted up to MaxCalls); how often
\* fulfilment was dispatched for it; how often stock was taken for it.
NoHist == [ calls |-> 0, dispatched |-> 0, taken |-> 0 ]

IdleFlow ==
    [ pc |-> "idle", product_id |-> NoneStr, quantity |-> 0,
      order_no |-> UnknownNo, expire_time |-> None, available_methods |-> {} ]

NoTemp == [ product_id |-> NoneStr, quantity |-> 0, expire_time |-> None ]

\* No cart_buy in progress: there is no Order object (`order`) that buy_cart
\* has built.
IdleCartFlow == [ pc |-> "idle" ]

\* ------------------------------------------------------------- persistence
\* A str object takes the place of a timestamp: the text of the timestamp t is
\* written -2 - t, so that a timestamp field stays a number (a datetime from 0
\* on, None -1, a str below).
StrOf(t) == -2 - t
IsStr(x) == x <= -2
TimeOf(x) == -2 - x

\* What str(datetime) leaves in paid_at, delivered_at and cancelled_at.
DatetimeStr == "str"

\* str(datetime) separates the date and the time by a space.
SepOfStr == " "

\* json.dump(..., default=str) (line 144) on a timestamp field: a datetime is
\* no JSON type and goes through str; None is written null.
JsonDefault(x) == IF x >= 0 THEN StrOf(x) ELSE x
JsonDefaultAt(x) == IF x = Datetime THEN DatetimeStr ELSE x

\* json.dump of an order dict.
Dump(d) ==
    [ d EXCEPT !.expire_time = JsonDefault(@),
               !.paid_at = JsonDefaultAt(@),
               !.delivered_at = JsonDefaultAt(@),
               !.cancelled_at = JsonDefaultAt(@) ]

\* _convert_date_strings on a timestamp field (lines 126-132): a str that
\* holds a 'T' is parsed by fromisoformat, any other value is kept.
ConvertDateString(x) == IF IsStr(x) /\ SepOfStr = "T" THEN TimeOf(x) ELSE x
ConvertDateStringAt(x) ==
    IF x = DatetimeStr /\ SepOfStr = "T" THEN Datetime ELSE x

\* json.load and _convert_date_strings of an order dict (lines 111-139).
Load(r) ==
    [ r EXCEPT !.expire_time = ConvertDateString(@),
               !.paid_at = ConvertDateStringAt(@),
               !.delivered_at = ConvertDateStringAt(@),
               !.cancelled_at = ConvertDateStringAt(@) ]

\* The content of orders.json for the ledger `ledger` of the dicts `dicts`:
\* the dumps of the dicts the ledger holds, one for each order_no.
OrdersJson(dicts, ledger) ==
    { Dump(dicts[i]) :
        i \in { j \in OrderIds : /\ dicts[j].status # "absent"
                                 /\ ledger[dicts[j].order_no] = j } }

\* _save_data (lines 141-146): the file is rewritten, or the failure is logged
\* and the file stays as it was.
SaveData(file, data) ==
    IF writable THEN [ files EXCEPT ![file] = data ] ELSE files

\* save_orders() (line 151) after the step has written the order dicts.
SaveOrders == files' = SaveData("orders", OrdersJson(order_dict', orders'))

\* save_orders() and save_products() in one step.
SaveOrdersAndProducts ==
    files' = IF writable
             THEN [ files EXCEPT !.orders = OrdersJson(order_dict', orders'),
                                 !.products = products' ]
             ELSE files

\* save_products() (line 148) after the step has written the stock.
SaveProducts == files' = SaveData("products", products')

\* ---------------------------------------------------------- email bindings
Emails == { "a@x", "b@x" }
Codes == { 1, 2 }

\* A user without an entry in user_emails.
NoEmail == [ email |-> NoneStr, verified |-> FALSE ]

\* asdict(UserEmail(..., verified=True, ...)) (lines 1599-1606).
UserEmail(email) == [ email |-> email, verified |-> TRUE ]

\* The payment methods of _init_default_payment_methods (lines 90-109).
Methods == { "alipay", "wxpay" }

\* MallPlugin.__init__ on a data directory whose files hold the catalogue of
\* two products and the verified email of every user: no orders, no monitors,
\* no carts, every lock free.
Init ==
    /\ now = 0
    /\ products = [ p \in Products |->
                      [ quantity |-> InitQty, delivery_type |-> DeliveryType(p),
                        status |-> "active" ] ]
    /\ order_dict = [ i \in OrderIds |-> NoRecord ]
    /\ orders = NoEntries
    /\ next_id = 1
    /\ payment_monitors = NoEntries
    /\ timers = {}
    /\ product_locks = [ p \in Products |-> [ locked |-> FALSE, waiters |-> << >> ] ]
    /\ temp_orders = [ u \in Users |-> NoTemp ]
    /\ flow = [ u \in Users |-> IdleFlow ]
    /\ deliver = [ i \in OrderIds |-> "none" ]
    /\ hist = [ i \in OrderIds |-> NoHist ]
    /\ carts = [ u \in Users |-> << >> ]
    /\ cart_flow = [ u \in Users |-> IdleCartFlow ]
    /\ writable = TRUE
    /\ payment_methods = Methods
    /\ user_emails = [ u \in Users |-> UserEmail("a@x") ]
    /\ verify = {}
    /\ bind_flow = {}
    /\ files = [ orders |-> {},
                 products |-> products,
                 user_emails |-> user_emails,
                 payment_methods |-> payment_methods ]

\* ------------------------------------------------------------- asyncio.Lock
Task(kind, u, i) == [ kind |-> kind, u |-> u, i |-> i ]

\* Lock.acquire returns at once: not locked and nobody queued.
LockFree(p) == ~product_locks[p].locked /\ product_locks[p].waiters = << >>

\* Lock.acquire has to wait: the caller joins the queue of waiters.
Enqueue(p, task) ==
    [ product_locks EXCEPT ![p].waiters = Append(@, task) ]

\* The first waiter, woken by release, takes the lock when it runs.
CanResume(p, task) ==
    /\ ~product_locks[p].locked
    /\ product_locks[p].waiters # << >>
    /\ Head(product_locks[p].waiters) = task

\* The lock table with `task` (if queued) removed from the queue and the lock
\* in state `held`.
LockSet(p, queued, held) ==
    [ product_locks EXCEPT ![p] =
        [ locked |-> held,
          waiters |-> IF queued THEN Tail(@.waiters) ELSE @.waiters ] ]

\* ------------------------------------------------------------ buying (/buy)
\* timedelta(minutes=5), the life of a temporary order
TempOrderLife == 300 * TicksPerSecond

\* A buy_product that does not look for an enabled payment method.
BuyCheckAnyMethod(u, p, q, queued) ==
    IF products[p].quantity < q
    THEN /\ product_locks' = LockSet(p, queued, TRUE)
         /\ flow' = [ flow EXCEPT ![u] =
                        [ IdleFlow EXCEPT !.pc = "buy_reply", !.product_id = p ] ]
         /\ UNCHANGED temp_orders
    ELSE /\ product_locks' = LockSet(p, queued, FALSE)
         /\ temp_orders' = [ temp_orders EXCEPT ![SenderOf(u)] =
                [ product_id |-> p, quantity |-> q,
                  expire_time |-> now + TempOrderLife ] ]
         /\ flow' = [ flow EXCEPT ![u] =
                        [ IdleFlow EXCEPT !.pc = "select", !.product_id = p,
                                          !.quantity = q,
                                          !.available_methods = payment_methods ] ]

\* buy_product from the stock check under the product lock (lines 535-579) to
\* its first suspension: with too little stock the reply is yielded inside
\* `async with`, so the handler parks holding the lock; otherwise the lock is
\* released, the temporary order is stored and the handler waits for the
\* user's choice of payment method.
BuyCheck(u, p, q, queued) ==
    IF products[p].quantity < q
    THEN /\ product_locks' = LockSet(p, queued, TRUE)
         /\ flow' = [ flow EXCEPT ![u] =
                        [ IdleFlow EXCEPT !.pc = "buy_reply", !.product_id = p ] ]
         /\ UNCHANGED temp_orders
    ELSE IF payment_methods = {}
    THEN \* "no payment method available" (lines 553-555), the lock released
         /\ product_locks' = LockSet(p, queued, FALSE)
         /\ flow' = [ flow EXCEPT ![u] = IdleFlow ]
         /\ UNCHANGED temp_orders
    ELSE /\ product_locks' = LockSet(p, queued, FALSE)
         /\ temp_orders' = [ temp_orders EXCEPT ![SenderOf(u)] =
                [ product_id |-> p, quantity |-> q,
                  expire_time |-> now + TempOrderLife ] ]
         /\ flow' = [ flow EXCEPT ![u] =
                        [ IdleFlow EXCEPT !.pc = "select", !.product_id = p,
                                          !.quantity = q,
                                          !.available_methods = payment_methods ] ]

\* /buy product_id quantity, by user u (lines 506-543).
BuyProduct(u, p, q) ==
    /\ flow[u].pc = "idle"
    /\ IF \/ ~user_emails[SenderOf(u)].verified
          \/ p \notin DOMAIN products
          \/ products[p].status # "active"
          \/ q <= 0
       THEN \* no verified email, unknown or withdrawn product, or "quantity
            \* must be greater than 0" (lines 511-533)
            UNCHANGED << product_locks, temp_orders, flow >>
       ELSE IF LockFree(p)
       THEN BuyCheck(u, p, q, FALSE)
       ELSE /\ product_locks' = Enqueue(p, Task("buy", u, NoOrder))
            /\ flow' = [ flow EXCEPT ![u] =
                           [ IdleFlow EXCEPT !.pc = "buy_lock", !.product_id = p,
                                             !.quantity = q ] ]
            /\ UNCHANGED temp_orders
    /\ UNCHANGED << env, files, now, products, order_dict, orders, next_id, payment_monitors,
                    timers, deliver, hist,
                    carts, cart_flow >>

\* buy_product gets the product lock it queued for (line 536).
BuyLocked(u) ==
    /\ flow[u].pc = "buy_lock"
    /\ CanResume(flow[u].product_id, Task("buy", u, NoOrder))
    /\ BuyCheck(u, flow[u].product_id, flow[u].quantity, TRUE)
    /\ UNCHANGED << env, files, now, products, order_dict, orders, next_id, payment_monitors,
                    timers, deliver, hist,
                    carts, cart_flow >>

\* A reply inside `async with` that never gives the lock back.
BuyRepliedKeepsLock(u) ==
    /\ flow[u].pc = "buy_reply"
    /\ flow' = [ flow EXCEPT ![u] = IdleFlow ]
    /\ UNCHANGED << env, files, now, products, order_dict, orders, next_id, payment_monitors,
                    timers, product_locks, temp_orders, deliver, hist,
                    carts, cart_flow >>

\* The framework has sent the "out of stock" reply and resumes the generator:
\* `return` leaves `async with` and releases the lock (lines 538-539).
BuyReplied(u) ==
    /\ flow[u].pc = "buy_reply"
    /\ product_locks' = [ product_locks EXCEPT ![flow[u].product_id].locked = FALSE ]
    /\ flow' = [ flow EXCEPT ![u] = IdleFlow ]
    /\ UNCHANGED << env, files, now, products, order_dict, orders, next_id, payment_monitors,
                    timers, temp_orders, deliver, hist,
                    carts, cart_flow >>

\* -------------------------------------------- choosing the payment method
\* Flows that are inside _create_final_order and may still record an order.
Creating == { u \in DOMAIN flow : flow[u].pc \in { "create_lock", "gateway" } }

\* The bounds of the model: an order is only begun when a dict is left for it
\* and its monitor can fire before the clock stops.
CanCreate ==
    /\ (next_id - 1) + Cardinality(Creating)
          + Cardinality({ u \in Users : cart_flow[u].pc = "gateway" }) < MaxOrders
    /\ now + PaymentTimeout <= MaxTime

\* _create_final_order from the second stock check under the product lock
\* (lines 634-666) to its next suspension: with too little stock it awaits
\* event.send inside `async with`, holding the lock; otherwise it releases the
\* lock, fixes order_no and expire_time and awaits the payment gateway.
\* p and q are the product_id and quantity of the temp_order the waiter read
\* (line 587), which the flow keeps from then on.
CreateCheck(u, p, q, queued) ==
        IF products[p].quantity < q
        THEN /\ product_locks' = LockSet(p, queued, TRUE)
             /\ flow' = [ flow EXCEPT ![u].pc = "create_reply",
                                      ![u].product_id = p,
                                      ![u].quantity = q ]
        ELSE /\ product_locks' = LockSet(p, queued, FALSE)
             /\ flow' = [ flow EXCEPT ![u].pc = "gateway",
                                      ![u].product_id = p,
                                      ![u].quantity = q,
                                      ![u].order_no = OrderNo(now, SenderOf(u)),
                                      ![u].expire_time = now + PaymentTimeout ]

\* The payment methods in the order of the dict data_manager.payment_methods.
MethodOrder == << "alipay", "wxpay" >>

\* available_methods (lines 548-551), built when the choices were displayed.
AvailableList(enabled) == SelectSeq(MethodOrder, LAMBDA m : m \in enabled)

\* available_methods[choice_index] (line 599): the method _create_final_order
\* is called with.  A valid answer of the model is "1", choice_index 0.
ChosenMethod(u) == AvailableList(flow[u].available_methods)[1]

\* payment_method_waiter: the user's answer to the list of payment methods
\* (lines 583-614).  `valid` says whether the answer is one of the numbers.
SelectMethod(u, valid) ==
    /\ flow[u].pc = "select"
    /\ IF temp_orders[SenderOf(u)] = NoTemp \/ temp_orders[SenderOf(u)].expire_time < now
       THEN \* "order expired, buy again"
            /\ temp_orders' = [ temp_orders EXCEPT ![SenderOf(u)] = NoTemp ]
            /\ flow' = [ flow EXCEPT ![u] = IdleFlow ]
            /\ UNCHANGED product_locks
       ELSE IF ~valid
       THEN \* controller.keep: ask again
            UNCHANGED << temp_orders, flow, product_locks >>
       ELSE LET temp_order == temp_orders[SenderOf(u)]
            IN  /\ CanCreate
                /\ UNCHANGED temp_orders
                /\ IF LockFree(temp_order.product_id)
                   THEN CreateCheck(u, temp_order.product_id,
                                    temp_order.quantity, FALSE)
                   ELSE /\ product_locks' =
                              Enqueue(temp_order.product_id,
                                      Task("create", u, NoOrder))
                        /\ flow' = [ flow EXCEPT
                                       ![u].pc = "create_lock",
                                       ![u].product_id = temp_order.product_id,
                                       ![u].quantity = temp_order.quantity ]
    /\ UNCHANGED << env, files, now, products, order_dict, orders, next_id, payment_monitors,
                    timers, deliver, hist,
                    carts, cart_flow >>

\* A timeout handler that leaves the temporary order where it is.
SelectTimeoutKeeps(u) ==
    /\ flow[u].pc = "select"
    /\ flow' = [ flow EXCEPT ![u] = IdleFlow ]
    /\ UNCHANGED << env, files, now, products, order_dict, orders, next_id, payment_monitors,
                    timers, product_locks, temp_orders, deliver, hist,
                    carts, cart_flow >>

\* session_waiter's timeout: the choice is abandoned (lines 618-622).
SelectTimeout(u) ==
    /\ flow[u].pc = "select"
    /\ temp_orders' = [ temp_orders EXCEPT ![SenderOf(u)] = NoTemp ]
    /\ flow' = [ flow EXCEPT ![u] = IdleFlow ]
    /\ UNCHANGED << env, files, now, products, order_dict, orders, next_id, payment_monitors,
                    timers, product_locks, deliver, hist,
                    carts, cart_flow >>

\* _create_final_order gets the product lock it queued for (line 635).
CreateLocked(u) ==
    /\ flow[u].pc = "create_lock"
    /\ CanResume(flow[u].product_id, Task("create", u, NoOrder))
    /\ CreateCheck(u, flow[u].product_id, flow[u].quantity, TRUE)
    /\ UNCHANGED << env, files, now, products, order_dict, orders, next_id, payment_monitors,
                    timers, temp_orders, deliver, hist,
                    carts, cart_flow >>

\* event.send of the "out of stock" message returns: _create_final_order leaves
\* `async with` (lines 638-639) and the waiter drops the temporary order
\* (lines 606-608).
CreateReplied(u) ==
    /\ flow[u].pc = "create_reply"
    /\ product_locks' = [ product_locks EXCEPT ![flow[u].product_id].locked = FALSE ]
    /\ temp_orders' = [ temp_orders EXCEPT ![SenderOf(u)] = NoTemp ]
    /\ flow' = [ flow EXCEPT ![u] = IdleFlow ]
    /\ UNCHANGED << env, files, now, products, order_dict, orders, next_id, payment_monitors,
                    timers, deliver, hist,
                    carts, cart_flow >>

\* asdict(Order(...)) of lines 645-658 and 676.
NewOrder(u) ==
    [ NoRecord EXCEPT
        !.order_no = flow[u].order_no,
        !.user_id = SenderOf(u),
        !.product_id = flow[u].product_id,
        !.quantity = flow[u].quantity,
        !.amount = Price(flow[u].product_id) * flow[u].quantity,
        !.status = "pending",
        !.delivery_type = products[flow[u].product_id].delivery_type,
        !.expire_time = flow[u].expire_time ]

\* _start_payment_monitor (lines 700-713): a task that sleeps payment_timeout
\* and is registered under the order number, replacing what was registered.
\* The task is known by the tick it wakes at.
StartPaymentMonitor(order_no) ==
    /\ payment_monitors' = Put(payment_monitors, order_no, now + PaymentTimeout)
    /\ timers' = timers \cup { << order_no, now + PaymentTimeout >> }

\* A _create_final_order that records the order whatever the gateway answers.
GatewayDoneRecords(u, success) ==
    /\ flow[u].pc = "gateway"
    /\ order_dict' = [ order_dict EXCEPT ![next_id] = NewOrder(u) ]
    /\ orders' = Put(orders, flow[u].order_no, next_id)
    /\ next_id' = next_id + 1
    /\ StartPaymentMonitor(flow[u].order_no)
    /\ temp_orders' = [ temp_orders EXCEPT ![SenderOf(u)] = NoTemp ]
    /\ flow' = [ flow EXCEPT ![u] = IdleFlow ]
    /\ UNCHANGED << env, now, products, product_locks, deliver, hist, carts, cart_flow >>
    /\ SaveOrders

\* payment_service.create_payment returns (lines 661-698): on failure nothing
\* is recorded; on success the order dict is stored under its number (replacing
\* a dict already stored under that number), saved, and its monitor started.
\* The messages to the user follow; then the waiter drops the temporary order.
GatewayDone(u, success) ==
    /\ flow[u].pc = "gateway"
    /\ IF success
       THEN /\ order_dict' = [ order_dict EXCEPT ![next_id] = NewOrder(u) ]
            /\ orders' = Put(orders, flow[u].order_no, next_id)
            /\ next_id' = next_id + 1
            /\ StartPaymentMonitor(flow[u].order_no)
       ELSE UNCHANGED << order_dict, orders, next_id, payment_monitors, timers >>
    /\ temp_orders' = [ temp_orders EXCEPT ![SenderOf(u)] = NoTemp ]
    /\ flow' = [ flow EXCEPT ![u] = IdleFlow ]
    /\ UNCHANGED << env, now, products, product_locks, deliver, hist,
                    carts, cart_flow >>
    /\ IF success THEN SaveOrders ELSE UNCHANGED files

\* ------------------------------------------------- payment callback, delivery
\* The order dict the ledger holds under order_no, NoOrder if none.
Lookup(order_no) == IF order_no \in DOMAIN orders THEN orders[order_no] ELSE NoOrder

\* A handle_payment_notify that tests only whether the order is known.
NotifyAcceptsKnown(order_no) == Lookup(order_no) # NoOrder

\* handle_payment_notify's two early returns (lines 718-723): the callback goes
\* on only for a known order that is still pending.
NotifyAccepts(order_no) ==
    /\ Lookup(order_no) # NoOrder
    /\ order_dict[Lookup(order_no)].status = "pending"

\* An _auto_deliver that never finds the stock short.
StockShortNever(i) == FALSE

\* _auto_deliver's stock check (line 750).
StockShort(i) ==
    products[order_dict[i].product_id].quantity < order_dict[i].quantity

\* _auto_deliver's decrement (line 755).
Decrement(i) ==
    [ products EXCEPT ![order_dict[i].product_id].quantity =
                          @ - order_dict[i].quantity ]

\* Order(**order_data) (lines 776, 1264) raises TypeError when the dict holds a
\* key that is no field of the dataclass: delivered_at, cancelled_at,
\* cancelled_by.
OrderCtorRaises(d) ==
    d.delivered_at # NoneStr \/ d.cancelled_at # NoneStr \/ d.cancelled_by # NoneStr

\* _auto_deliver inside `async with` and up to the next suspension (lines
\* 746-779): with too little stock it logs and returns, leaving the order as it
\* is; otherwise it takes the stock, releases the lock and awaits the delivery
\* email (or raises in Order(**order_data)).
AutoDeliverStock(i, queued) ==
    /\ product_locks' = LockSet(order_dict[i].product_id, queued, FALSE)
    /\ IF StockShort(i)
       THEN /\ UNCHANGED products
            /\ deliver' = [ deliver EXCEPT ![i] = "none" ]
       ELSE /\ products' = Decrement(i)
            /\ deliver' = [ deliver EXCEPT ![i] =
                              IF OrderCtorRaises(order_dict[i]) THEN "none" ELSE "email" ]

Taken(i) == IF StockShort(i) THEN 0 ELSE 1

\* The order dict after lines 726-727.
MarkPaid(d) == [ d EXCEPT !.status = "paid", !.paid_at = Datetime ]

\* The order dict after _notify_admin_for_manual_delivery (lines 798-828):
\* whether send_admin_notification succeeded is logged, the messages to the
\* operators are sent with their failures caught, and nothing is written.
NotifyAdminForManualDelivery(d, email_success) == d

\* One more call of handle_payment_notify for an order dict: the call that
\* finds it pending, or a later one.
Called(h, accepts) ==
    [ h EXCEPT !.calls = IF (accepts \/ h.dispatched > 0) /\ @ < MaxCalls
                         THEN @ + 1 ELSE @ ]

\* /payment_callback order_no status (lines 1428-1442) with
\* handle_payment_notify (lines 716-738) up to its first suspension.  sign_ok
\* says whether the notification carries a signature equal to generate_sign of
\* its parameters; no line of either function reads a signature.
PaymentCallback(order_no, is_admin, status, sign_ok) ==
    /\ IF ~is_admin \/ status # "success" \/ Lookup(order_no) = NoOrder
       THEN UNCHANGED << products, order_dict, product_locks, deliver, hist >>
       ELSE IF ~NotifyAccepts(order_no)
       THEN /\ hist' = [ hist EXCEPT ![Lookup(order_no)] = Called(@, FALSE) ]
            /\ UNCHANGED << products, order_dict, product_locks, deliver >>
       ELSE LET i == Lookup(order_no)
                p == order_dict[i].product_id
                h == [ Called(hist[i], TRUE) EXCEPT !.dispatched = @ + 1 ]
            IN  /\ IF order_dict[i].delivery_type = "auto"
                   THEN order_dict' = [ order_dict EXCEPT ![i] = MarkPaid(@) ]
                   ELSE \E email_success \in BOOLEAN :
                           order_dict' = [ order_dict EXCEPT ![i] =
                               NotifyAdminForManualDelivery(MarkPaid(@), email_success) ]
                /\ IF order_dict[i].delivery_type = "auto"
                   THEN IF LockFree(p)
                        THEN /\ AutoDeliverStock(i, FALSE)
                             /\ hist' = [ hist EXCEPT ![i] =
                                            [ h EXCEPT !.taken = @ + Taken(i) ] ]
                        ELSE /\ product_locks' = Enqueue(p, Task("deliver", NoUser, i))
                             /\ deliver' = [ deliver EXCEPT ![i] = "lock" ]
                             /\ hist' = [ hist EXCEPT ![i] = h ]
                             /\ UNCHANGED products
                   ELSE \* _notify_admin_for_manual_delivery
                        /\ hist' = [ hist EXCEPT ![i] = h ]
                        /\ UNCHANGED << products, product_locks, deliver >>
    /\ UNCHANGED << env, now, orders, next_id, payment_monitors, timers, temp_orders, flow,
                    carts, cart_flow >>
    /\ IF ~(is_admin /\ status = "success" /\ NotifyAccepts(order_no))
       THEN UNCHANGED files
       ELSE IF /\ order_dict[Lookup(order_no)].delivery_type = "auto"
               /\ LockFree(order_dict[Lookup(order_no)].product_id)
               /\ ~StockShort(Lookup(order_no))
       THEN SaveOrdersAndProducts
       ELSE SaveOrders

\* _auto_deliver gets the product lock it queued for (line 746).
AutoDeliverLocked(i) ==
    /\ deliver[i] = "lock"
    /\ CanResume(order_dict[i].product_id, Task("deliver", NoUser, i))
    /\ AutoDeliverStock(i, TRUE)
    /\ hist' = [ hist EXCEPT ![i].taken = @ + Taken(i) ]
    /\ UNCHANGED << env, now, order_dict, orders, next_id, payment_monitors, timers,
                    temp_orders, flow,
                    carts, cart_flow >>
    /\ IF StockShort(i) THEN UNCHANGED files ELSE SaveProducts

\* The order dict after lines 792-793 and 1258-1259.
MarkDelivered(d) == [ d EXCEPT !.status = "delivered", !.delivered_at = Datetime ]

\* An _auto_deliver that gives up when the email fails: the order stays paid
\* and the stock is put back.
AutoDeliverDoneReverts(i, email_success) ==
    /\ deliver[i] = "email"
    /\ IF email_success
       THEN /\ order_dict' = [ order_dict EXCEPT ![i] = MarkDelivered(@) ]
            /\ UNCHANGED products
       ELSE /\ products' = [ products EXCEPT ![order_dict[i].product_id].quantity =
                                                @ + order_dict[i].quantity ]
            /\ UNCHANGED order_dict
    /\ deliver' = [ deliver EXCEPT ![i] = "none" ]
    /\ UNCHANGED << env, now, orders, next_id, payment_monitors, timers,
                    product_locks, temp_orders, flow, hist,
                    carts, cart_flow >>
    /\ IF email_success THEN SaveOrders ELSE SaveProducts

\* send_delivery_notification has returned email_success (lines 777-796): the
\* value is stored and never read, and the order dict this call holds becomes
\* delivered.
AutoDeliverDone(i, email_success) ==
    /\ deliver[i] = "email"
    /\ order_dict' = [ order_dict EXCEPT ![i] = MarkDelivered(@) ]
    /\ deliver' = [ deliver EXCEPT ![i] = "none" ]
    /\ UNCHANGED << env, now, products, orders, next_id, payment_monitors, timers,
                    product_locks, temp_orders, flow, hist,
                    carts, cart_flow >>
    /\ SaveOrders

\* ------------------------------------------------------ cancel, manual delivery
\* A cancel_order that does not test who the caller is.
CancelAcceptsAnyone(u, is_admin, order_no) ==
    /\ Lookup(order_no) # NoOrder
    /\ order_dict[Lookup(order_no)].status \in { "pending" }

\* A cancel_order that does not test the status.
CancelAcceptsAnyStatus(u, is_admin, order_no) ==
    /\ Lookup(order_no) # NoOrder
    /\ order_dict[Lookup(order_no)].user_id = u \/ is_admin

\* cancel_order's three rejections (lines 1214-1227).
CancelAccepts(u, is_admin, order_no) ==
    /\ Lookup(order_no) # NoOrder
    /\ order_dict[Lookup(order_no)].user_id = u \/ is_admin
    /\ order_dict[Lookup(order_no)].status \in { "pending" }

\* A cancel_order that puts the order's quantity back into the stock.
CancelOrderRestocks(u, is_admin, order_no) ==
    LET i == Lookup(order_no)
    IN  /\ IF ~CancelAccepts(u, is_admin, order_no)
           THEN UNCHANGED << order_dict, payment_monitors, timers, products >>
           ELSE /\ order_dict' = [ order_dict EXCEPT
                      ![i].status = "cancelled",
                      ![i].cancelled_at = Datetime,
                      ![i].cancelled_by =
                          IF order_dict[i].user_id = u THEN "user" ELSE "admin" ]
                /\ timers' = IF order_no \in DOMAIN payment_monitors
                             THEN timers \ { << order_no, payment_monitors[order_no] >> }
                             ELSE timers
                /\ payment_monitors' = Del(payment_monitors, order_no)
                /\ products' = IF order_dict[i].product_id \in Products
                               THEN [ products EXCEPT ![order_dict[i].product_id].quantity =
                                                        @ + order_dict[i].quantity ]
                               ELSE products
        /\ UNCHANGED << env, now, orders, next_id, product_locks, temp_orders,
                        flow, deliver, hist,
                        carts, cart_flow >>
        /\ IF CancelAccepts(u, is_admin, order_no) THEN SaveOrders ELSE UNCHANGED files

\* /cancel_order order_no by user u (lines 1209-1241).
CancelOrder(u, is_admin, order_no) ==
    LET i == Lookup(order_no)
    IN  /\ IF ~CancelAccepts(u, is_admin, order_no)
           THEN UNCHANGED << order_dict, payment_monitors, timers >>
           ELSE /\ order_dict' = [ order_dict EXCEPT
                      ![i].status = "cancelled",
                      ![i].cancelled_at = Datetime,
                      ![i].cancelled_by =
                          IF order_dict[i].user_id = u THEN "user" ELSE "admin" ]
                \* payment_monitors[order_no].cancel(); del payment_monitors[order_no]
                /\ timers' = IF order_no \in DOMAIN payment_monitors
                             THEN timers \ { << order_no, payment_monitors[order_no] >> }
                             ELSE timers
                /\ payment_monitors' = Del(payment_monitors, order_no)
        /\ UNCHANGED << env, now, products, orders, next_id, product_locks, temp_orders,
                        flow, deliver, hist,
                        carts, cart_flow >>
        /\ IF CancelAccepts(u, is_admin, order_no) THEN SaveOrders ELSE UNCHANGED files

\* A deliver_order that does not test the status.
DeliverAcceptsKnown(order_no) == Lookup(order_no) # NoOrder

\* deliver_order's two rejections (lines 1248-1255).
DeliverAccepts(order_no) ==
    /\ Lookup(order_no) # NoOrder
    /\ order_dict[Lookup(order_no)].status = "paid"

\* What deliver_order answers the operator after the save (lines 1262-1274),
\* for an order dict d as the save left it: without delivery content
\* "delivered"; with content, Order(**order_data) is built first and the
\* command ends in its TypeError, or the email is sent and its result reported.
DeliverReport(d, with_content, email_success) ==
    IF ~with_content THEN "delivered"
    ELSE IF OrderCtorRaises(d) THEN "raised"
    ELSE IF email_success THEN "emailed"
    ELSE "email failed"

\* /deliver_order order_no [delivery_content], an admin command (lines
\* 1244-1274).  What follows the save (the email to the buyer) writes no state.
DeliverOrder(order_no) ==
    LET i == Lookup(order_no)
    IN  /\ IF ~DeliverAccepts(order_no)
           THEN UNCHANGED order_dict
           ELSE order_dict' = [ order_dict EXCEPT ![i] = MarkDelivered(@) ]
        /\ UNCHANGED << env, now, products, orders, next_id, payment_monitors, timers,
                        product_locks, temp_orders, flow, deliver, hist,
                        carts, cart_flow >>
        /\ IF DeliverAccepts(order_no) THEN SaveOrders ELSE UNCHANGED files

\* ------------------------------------------------------------------- expiry
\* A monitor_payment that does not test the status.
MonitorExpiresKnown(order_no) == Lookup(order_no) # NoOrder

\* monitor_payment's test after the sleep (lines 705-707).
MonitorExpires(order_no) ==
    /\ Lookup(order_no) # NoOrder
    /\ order_dict[Lookup(order_no)].status = "pending"

\* monitor_payment wakes up (lines 703-711): payment_timeout after it started
\* or later.  It looks the order up by number at that moment.
MonitorPayment(order_no, wake) ==
    /\ << order_no, wake >> \in timers
    /\ now >= wake
    /\ timers' = timers \ { << order_no, wake >> }
    /\ IF MonitorExpires(order_no)
       THEN order_dict' = [ order_dict EXCEPT ![Lookup(order_no)].status = "expired" ]
       ELSE UNCHANGED order_dict
    /\ UNCHANGED << env, now, products, orders, next_id, payment_monitors, product_locks,
                    temp_orders, flow, deliver, hist,
                    carts, cart_flow >>
    /\ IF MonitorExpires(order_no) THEN SaveOrders ELSE UNCHANGED files

\* The comparison of line 361 meets a pending order whose expire_time is a
\* str: '<' between str and datetime raises TypeError, which ends the pass
\* (lines 371-372) before any order is written.
SweepRaises ==
    \E no \in DOMAIN orders :
        /\ order_dict[orders[no]].status = "pending"
        /\ IsStr(order_dict[orders[no]].expire_time)

\* The orders one pass of _cleanup_expired_orders collects (lines 358-362).
ExpiredOrders ==
    IF SweepRaises THEN {}
    ELSE { no \in DOMAIN orders :
             /\ order_dict[orders[no]].status = "pending"
             /\ order_dict[orders[no]].expire_time # None
             /\ order_dict[orders[no]].expire_time < now }

\* One pass of _cleanup_expired_orders (lines 355-369).  Its period of 300 s is
\* longer than the whole clock of the model, so a pass may fall on any tick.
CleanupExpiredOrders ==
    /\ ExpiredOrders # {}
    /\ order_dict' = [ i \in OrderIds |->
          IF \E no \in ExpiredOrders : orders[no] = i
          THEN [ order_dict[i] EXCEPT !.status = "expired" ]
          ELSE order_dict[i] ]
    /\ UNCHANGED << env, now, products, orders, next_id, payment_monitors, timers,
                    product_locks, temp_orders, flow, deliver, hist,
                    carts, cart_flow >>
    /\ SaveOrders

\* Time passes.  While an order is being created the clock leaves room for its
\* monitor to fire before MaxTime.
Tick ==
    /\ now < MaxTime
    /\ Creating = {} \/ now + 1 + PaymentTimeout <= MaxTime
    /\ now' = now + 1
    /\ UNCHANGED << env, files, products, order_dict, orders, next_id, payment_monitors, timers,
                    product_locks, temp_orders, flow, deliver, hist,
                    carts, cart_flow >>

\* --------------------------------------------------------------------- cart
\* The cart line add_to_cart appends (lines 887-893).
CartItem(p, q) ==
    [ product_id |-> p, price |-> Price(p), quantity |-> q,
      delivery_type |-> products[p].delivery_type ]

\* The positions of the cart lines for product p.
LinesOf(cart, p) == { k \in 1..Len(cart) : cart[k].product_id = p }

\* The cart after add_to_cart's loop (lines 880-893): the first line for the
\* product gets the quantity added, or a new line is appended.
CartAdd(cart, p, q) ==
    IF LinesOf(cart, p) # {}
    THEN LET k == CHOOSE x \in LinesOf(cart, p) : \A y \in LinesOf(cart, p) : x <= y
         IN  [ cart EXCEPT ![k].quantity = @ + q ]
    ELSE Append(cart, CartItem(p, q))

\* The quantity the model lets a cart line reach.
CartRoom(cart, p, q) ==
    \A k \in LinesOf(cart, p) : cart[k].quantity + q <= MaxCartQty

\* /cart_add product_id quantity, by user u (lines 850-895).  The quantity is
\* compared with the stock and with nothing else.
AddToCart(u, p, q) ==
    /\ IF user_emails[u] = NoEmail
          \/ p \notin DOMAIN products \/ products[p].status # "active"
          \/ products[p].quantity < q
       THEN UNCHANGED carts
       ELSE /\ CartRoom(carts[u], p, q)
            /\ carts' = [ carts EXCEPT ![u] = CartAdd(@, p, q) ]
    /\ UNCHANGED << env, files, now, products, order_dict, orders, next_id, payment_monitors,
                    timers, product_locks, temp_orders, flow, deliver, hist,
                    cart_flow >>

\* The list without its element at position k: list.pop(k - 1).
Pop(cart, k) == SubSeq(cart, 1, k - 1) \o SubSeq(cart, k + 1, Len(cart))

\* /cart_remove index, by user u (lines 923-942).
RemoveFromCart(u, index) ==
    /\ IF carts[u] = << >> \/ index < 1 \/ index > Len(carts[u])
       THEN UNCHANGED carts
       ELSE carts' = [ carts EXCEPT ![u] = Pop(@, index) ]
    /\ UNCHANGED << env, files, now, products, order_dict, orders, next_id, payment_monitors,
                    timers, product_locks, temp_orders, flow, deliver, hist,
                    cart_flow >>

\* /cart_clear, by user u (lines 944-953).
ClearCart(u) ==
    /\ carts' = [ carts EXCEPT ![u] = << >> ]
    /\ UNCHANGED << env, files, now, products, order_dict, orders, next_id, payment_monitors,
                    timers, product_locks, temp_orders, flow, deliver, hist,
                    cart_flow >>

\* A total that adds the prices and forgets the quantities.
RECURSIVE TotalOfPrices(_)
TotalOfPrices(cart) ==
    IF cart = << >> THEN 0 ELSE Head(cart).price + TotalOfPrices(Tail(cart))

\* sum(item['price'] * item['quantity'] ...) (line 1001)
RECURSIVE TotalAmount(_)
TotalAmount(cart) ==
    IF cart = << >> THEN 0
    ELSE Head(cart).price * Head(cart).quantity + TotalAmount(Tail(cart))

\* sum(item['quantity'] ...) (line 1010)
RECURSIVE TotalQuantity(_)
TotalQuantity(cart) ==
    IF cart = << >> THEN 0 ELSE Head(cart).quantity + TotalQuantity(Tail(cart))

\* buy_cart's stock check (lines 976-984) finds a line it refuses.
CartRefused(cart) ==
    \E k \in 1..Len(cart) :
        \/ cart[k].product_id \notin DOMAIN products
        \/ products[cart[k].product_id].status # "active"
        \/ products[cart[k].product_id].quantity < cart[k].quantity

\* The Order object of lines 1000-1028; cart_items holds copies of the lines.
CartOrder(u) ==
    [ NoRecord EXCEPT
        !.order_no = CartNo(now, u),
        !.user_id = u,
        !.product_id = "cart",
        !.quantity = TotalQuantity(carts[u]),
        !.amount = TotalAmount(carts[u]),
        !.status = "pending",
        !.delivery_type = "mixed",
        !.cart_items = carts[u],
        !.expire_time = now + PaymentTimeout ]

\* Cart checkouts that may still record an order.
CartCreating == { u \in Users : cart_flow[u].pc = "gateway" }

\* /cart_buy by user u (lines 956-1036) up to the await of the payment
\* gateway.  The bound of the model: a dict is left for the order.
BuyCart(u) ==
    /\ cart_flow[u].pc = "idle"
    /\ IF ~user_emails[u].verified \/ carts[u] = << >> \/ CartRefused(carts[u])
       THEN UNCHANGED cart_flow
       ELSE /\ (next_id - 1) + Cardinality(Creating) + Cardinality(CartCreating)
                 < MaxOrders
            /\ now + PaymentTimeout <= MaxTime
            /\ cart_flow' = [ cart_flow EXCEPT ![u] =
                                [ pc |-> "gateway", order |-> CartOrder(u) ] ]
    /\ UNCHANGED << env, files, now, products, order_dict, orders, next_id, payment_monitors,
                    timers, product_locks, temp_orders, flow, deliver, hist, carts >>

\* A buy_cart that deletes the cart whatever the gateway answers.
CartGatewayDoneClears(u, success) ==
    /\ cart_flow[u].pc = "gateway"
    /\ IF success
       THEN /\ order_dict' = [ order_dict EXCEPT ![next_id] = cart_flow[u].order ]
            /\ orders' = Put(orders, cart_flow[u].order.order_no, next_id)
            /\ next_id' = next_id + 1
            /\ StartPaymentMonitor(cart_flow[u].order.order_no)
       ELSE UNCHANGED << order_dict, orders, next_id, payment_monitors, timers >>
    /\ carts' = [ carts EXCEPT ![u] = << >> ]
    /\ cart_flow' = [ cart_flow EXCEPT ![u] = IdleCartFlow ]
    /\ UNCHANGED << env, now, products, product_locks, temp_orders, flow, deliver, hist >>
    /\ IF success THEN SaveOrders ELSE UNCHANGED files

\* payment_service.create_payment returns to buy_cart (lines 1038-1071): on
\* failure nothing is recorded; on success the order is stored under its
\* number and saved, its monitor started, and then the cart deleted (a cart
\* emptied in the meantime makes `del` raise, after the order was recorded).
CartGatewayDone(u, success) ==
    /\ cart_flow[u].pc = "gateway"
    /\ IF success
       THEN /\ order_dict' = [ order_dict EXCEPT ![next_id] = cart_flow[u].order ]
            /\ orders' = Put(orders, cart_flow[u].order.order_no, next_id)
            /\ next_id' = next_id + 1
            /\ StartPaymentMonitor(cart_flow[u].order.order_no)
            /\ carts' = [ carts EXCEPT ![u] = << >> ]
       ELSE UNCHANGED << order_dict, orders, next_id, payment_monitors, timers,
                         carts >>
    /\ cart_flow' = [ cart_flow EXCEPT ![u] = IdleCartFlow ]
    /\ UNCHANGED << env, now, products, product_locks, temp_orders, flow, deliver, hist >>
    /\ IF success THEN SaveOrders ELSE UNCHANGED files

\* ------------------------------------------------------------ email binding
\* timedelta(minutes=10), the life of a verification code (line 1561)
ChallengeLife == 600 * TicksPerSecond

\* The entries of temp_orders under verify_<u>: one at most.
ChallengeOf(u) == { c \in verify : c.user_id = u }

\* /bind_email email, by user u (lines 1535-1566) up to the await of the email
\* service: the code is drawn and stored, replacing a code stored before.
BindEmail(u, email, code) ==
    /\ u \notin bind_flow
    /\ verify' = (verify \ ChallengeOf(u))
                   \cup { [ user_id |-> u, code |-> code, email |-> email,
                            expire_time |-> now + ChallengeLife ] }
    /\ bind_flow' = bind_flow \cup { u }
    /\ UNCHANGED << now, products, order_dict, orders, next_id, payment_monitors,
                    timers, product_locks, temp_orders, flow, deliver, hist, carts,
                    cart_flow, files, writable, payment_methods, user_emails >>

\* send_verification_code returns to bind_email (lines 1568-1582): when the
\* email could not be sent the entry under verify_<u> is deleted.
BindEmailDone(u, success) ==
    /\ u \in bind_flow
    /\ verify' = IF success THEN verify ELSE verify \ ChallengeOf(u)
    /\ bind_flow' = bind_flow \ { u }
    /\ UNCHANGED << now, products, order_dict, orders, next_id, payment_monitors,
                    timers, product_locks, temp_orders, flow, deliver, hist, carts,
                    cart_flow, files, writable, payment_methods, user_emails >>

\* A verify_email that binds the email whatever the code.
VerifyAcceptsAnyCode(c, code) == TRUE

\* verify_email's comparison of the codes (line 1597).
VerifyAccepts(c, code) == c.code = code

\* /verify_email code, by user u (lines 1584-1615).
VerifyEmail(u, code) ==
    /\ IF ChallengeOf(u) = {} \/ \E c \in ChallengeOf(u) : c.expire_time < now
       THEN \* "the code has expired": the entry is deleted
            /\ verify' = verify \ ChallengeOf(u)
            /\ UNCHANGED << user_emails, files >>
       ELSE LET c == CHOOSE x \in ChallengeOf(u) : TRUE
            IN  IF VerifyAccepts(c, code)
                THEN /\ user_emails' = [ user_emails EXCEPT ![u] = UserEmail(c.email) ]
                     /\ files' = SaveData("user_emails", user_emails')
                     /\ verify' = verify \ ChallengeOf(u)
                ELSE UNCHANGED << user_emails, files, verify >>
    /\ UNCHANGED << now, products, order_dict, orders, next_id, payment_monitors,
                    timers, product_locks, temp_orders, flow, deliver, hist, carts,
                    cart_flow, writable, payment_methods, bind_flow >>

\* ------------------------------------------------------------ administration
\* /toggle_payment_method method_id enabled (lines 412-423).
TogglePaymentMethod(method_id, enabled) ==
    /\ IF method_id \notin Methods
       THEN UNCHANGED << payment_methods, files >>
       ELSE /\ payment_methods' = IF enabled THEN payment_methods \cup { method_id }
                                  ELSE payment_methods \ { method_id }
            /\ files' = SaveData("payment_methods", payment_methods')
    /\ UNCHANGED << now, products, order_dict, orders, next_id, payment_monitors,
                    timers, product_locks, temp_orders, flow, deliver, hist, carts,
                    cart_flow, writable, user_emails, verify, bind_flow >>

\* ------------------------------------------------------------------ restart
\* The order dict json.load builds for the order number, from the record of
\* orders.json with that number.
Reloaded(i) ==
    LET rs == { r \in files.orders : Lookup(r.order_no) = i }
    IN  IF rs = {} THEN NoRecord ELSE Load(CHOOSE r \in rs : TRUE)

\* The process stops and starts again: DataManager.__init__ (lines 68-88) loads
\* the four files, MallPlugin.__init__ (lines 318-348) starts with empty
\* temp_orders, fresh locks and no monitor; every coroutine is gone.
\* hist counts what the running process did, so it starts again too.
Restart ==
    /\ order_dict' = [ i \in OrderIds |-> Reloaded(i) ]
    /\ orders' = [ no \in { n \in DOMAIN orders :
                                \E r \in files.orders : r.order_no = n } |-> orders[no] ]
    /\ products' = files.products
    /\ user_emails' = files.user_emails
    /\ payment_methods' = IF files.payment_methods = {} THEN Methods
                          ELSE files.payment_methods
    /\ files' = IF files.payment_methods = {}
                THEN SaveData("payment_methods", Methods) ELSE files
    /\ payment_monitors' = NoEntries
    /\ timers' = {}
    /\ product_locks' = [ p \in Products |-> [ locked |-> FALSE, waiters |-> << >> ] ]
    /\ temp_orders' = [ u \in Users |-> NoTemp ]
    /\ verify' = {}
    /\ bind_flow' = {}
    /\ flow' = [ u \in DOMAIN flow |-> IdleFlow ]
    /\ deliver' = [ i \in OrderIds |-> "none" ]
    /\ carts' = [ u \in Users |-> << >> ]
    /\ cart_flow' = [ u \in Users |-> IdleCartFlow ]
    /\ hist' = [ i \in OrderIds |-> NoHist ]
    /\ UNCHANGED << now, next_id, writable >>

\* The data directory stops or starts taking writes (disk full, permissions).
SetWritable(b) ==
    /\ writable # b
    /\ writable' = b
    /\ UNCHANGED << now, products, order_dict, orders, next_id, payment_monitors,
                    timers, product_locks, temp_orders, flow, deliver, hist, carts,
                    cart_flow, files, payment_methods, user_emails, verify, bind_flow >>

\* A long time passes: longer than the life of a verification code.
Later ==
    /\ now <= MaxTime
    /\ now' = now + ChallengeLife + 1
    /\ UNCHANGED << products, order_dict, orders, next_id, payment_monitors, timers,
                    product_locks, temp_orders, flow, deliver, hist, carts,
                    cart_flow, files, env >>

\* ------------------------------------------------------------ specification
\* What a /buy command may ask for: a product of the catalogue or an unknown
\* one, a quantity from 0.
BuyInputs == ((Products \cup { "9" }) \X (1..MaxQty)) \cup { << "1", 0 >> }

\* The numbers a command may name: those in the ledger and an unknown one.
Numbers == DOMAIN orders \cup { UnknownNo }

\* A payment callback: << is_admin, status, sign_ok >>.
CallbackInputs ==
    { << FALSE, "success", TRUE >>, << TRUE, "fail", TRUE >>,
      << TRUE, "success", TRUE >>, << TRUE, "success", FALSE >> }

\* No buy command is in progress.
NoFlow == \A u \in Users : flow[u].pc = "idle"

\* The handlers other than the purchase flow.
Ledger ==
    \/ \E no \in Numbers, c \in CallbackInputs : PaymentCallback(no, c[1], c[2], c[3])
    \/ \E i \in OrderIds : AutoDeliverLocked(i)
    \/ \E i \in OrderIds, email_success \in BOOLEAN : AutoDeliverDone(i, email_success)
    \/ \E u \in Users, is_admin \in BOOLEAN, no \in Numbers : CancelOrder(u, is_admin, no)
    \/ \E no \in Numbers : DeliverOrder(no)
    \/ \E t \in timers : MonitorPayment(t[1], t[2])
    \/ CleanupExpiredOrders
    \/ Tick

\* The shop with its customers buying one after the other.
Next ==
    \/ \E u \in Users, b \in BuyInputs : NoFlow /\ BuyProduct(u, b[1], b[2])
    \/ \E u \in Users : BuyReplied(u)
    \/ \E u \in Users, valid \in BOOLEAN : SelectMethod(u, valid)
    \/ \E u \in Users : SelectTimeout(u)
    \/ \E u \in Users : CreateReplied(u)
    \/ \E u \in Users, success \in BOOLEAN : GatewayDone(u, success)
    \/ Ledger

Spec == Init /\ [][Next]_vars

\* With customers buying at the same time, one may also ask for more of the
\* auto-delivery product than there is.
ConcBuyInputs == BuyInputs \cup { << "1", InitQty + 1 >> }

\* The shop at one instant, with its customers buying at the same time: the
\* coroutines meet at the product locks.
NextConc ==
    \/ \E u \in Users, b \in ConcBuyInputs : BuyProduct(u, b[1], b[2])
    \/ \E u \in Users : BuyLocked(u)
    \/ \E u \in Users : BuyReplied(u)
    \/ \E u \in Users, valid \in BOOLEAN : SelectMethod(u, valid)
    \/ \E u \in Users : SelectTimeout(u)
    \/ \E u \in Users : CreateLocked(u)
    \/ \E u \in Users : CreateReplied(u)
    \/ \E u \in Users, success \in BOOLEAN : GatewayDone(u, success)
    \/ \E no \in Numbers, c \in CallbackInputs : PaymentCallback(no, c[1], c[2], c[3])
    \/ \E i \in OrderIds : AutoDeliverLocked(i)
    \/ \E i \in OrderIds, email_success \in BOOLEAN : AutoDeliverDone(i, email_success)
    \/ \E u \in Users, is_admin \in BOOLEAN, no \in Numbers : CancelOrder(u, is_admin, no)
    \/ \E no \in Numbers : DeliverOrder(no)

SpecConc == Init /\ [][NextConc]_vars

\* The customers of the auto-delivery product, all three users of its lock at
\* work: buy_product, _create_final_order and _auto_deliver.
LiveBuyInputs == { << "1", 1 >>, << "1", InitQty + 1 >> }

NextLive ==
    \/ \E u \in Users, b \in LiveBuyInputs : BuyProduct(u, b[1], b[2])
    \/ \E u \in Users : BuyLocked(u)
    \/ \E u \in Users : BuyReplied(u)
    \/ \E u \in Users : SelectMethod(u, TRUE)
    \/ \E u \in Users : CreateLocked(u)
    \/ \E u \in Users : CreateReplied(u)
    \/ \E u \in Users : GatewayDone(u, TRUE)
    \/ \E no \in DOMAIN orders : PaymentCallback(no, TRUE, "success", TRUE)
    \/ \E i \in OrderIds : AutoDeliverLocked(i)
    \/ \E i \in OrderIds, email_success \in BOOLEAN : AutoDeliverDone(i, email_success)

\* The same shop on an event loop that runs every task that is ready: the
\* framework resumes a handler after sending the reply it yielded, an awaited
\* event.send returns, and a task woken by Lock.release gets to run.
Scheduling ==
    /\ WF_vars(\E u \in Users : BuyReplied(u))
    /\ WF_vars(\E u \in Users : CreateReplied(u))
    /\ WF_vars(\E u \in Users : BuyLocked(u))
    /\ WF_vars(\E u \in Users : CreateLocked(u))
    /\ WF_vars(\E i \in OrderIds : AutoDeliverLocked(i))

SpecLive == Init /\ [][NextLive]_vars /\ Scheduling

\* What a /cart_add command may ask for.
CartInputs ==
    ((Products \cup { "9" }) \X (1..MaxQty)) \cup { << "1", MaxCartQty >>, << "2", 0 >> }

\* The user who shops with a cart.
CartUsers == { << 1, 1, 2, 3, 4 >> }

\* The shop at one instant, with a cart: one customer fills a cart and checks
\* it out while single purchases and payments go on.
NextCart ==
    \/ \E u \in CartUsers, c \in CartInputs : AddToCart(u, c[1], c[2])
    \/ \E u \in CartUsers, index \in 0..2 : RemoveFromCart(u, index)
    \/ \E u \in CartUsers : ClearCart(u)
    \/ \E u \in CartUsers : BuyCart(u)
    \/ \E u \in CartUsers, success \in BOOLEAN : CartGatewayDone(u, success)
    \/ \E u \in Users, b \in BuyInputs : NoFlow /\ BuyProduct(u, b[1], b[2])
    \/ \E u \in Users, valid \in BOOLEAN : SelectMethod(u, valid)
    \/ \E u \in Users : SelectTimeout(u)
    \/ \E u \in Users, success \in BOOLEAN : GatewayDone(u, success)
    \/ \E u \in Users : BuyReplied(u)
    \/ \E u \in Users : CreateReplied(u)
    \/ \E no \in Numbers, c \in CallbackInputs : PaymentCallback(no, c[1], c[2], c[3])
    \/ \E i \in OrderIds : AutoDeliverLocked(i)
    \/ \E i \in OrderIds, email_success \in BOOLEAN : AutoDeliverDone(i, email_success)

SpecCart == Init /\ [][NextCart]_vars

\* The customer who binds an email, and the one whose purchases meet a disk
\* that fails.
ShopUser == << 1, 1, 2, 3, 4 >>

\* A data directory in which only the other customer has a verified email and
\* product "2" has been withdrawn.
InitShop ==
    /\ now = 0
    /\ products = [ p \in Products |->
                      [ quantity |-> InitQty, delivery_type |-> DeliveryType(p),
                        status |-> IF p = "2" THEN "inactive" ELSE "active" ] ]
    /\ order_dict = [ i \in OrderIds |-> NoRecord ]
    /\ orders = NoEntries
    /\ next_id = 1
    /\ payment_monitors = NoEntries
    /\ timers = {}
    /\ product_locks = [ p \in Products |-> [ locked |-> FALSE, waiters |-> << >> ] ]
    /\ temp_orders = [ u \in Users |-> NoTemp ]
    /\ flow = [ u \in Users |-> IdleFlow ]
    /\ deliver = [ i \in OrderIds |-> "none" ]
    /\ hist = [ i \in OrderIds |-> NoHist ]
    /\ carts = [ u \in Users |-> << >> ]
    /\ cart_flow = [ u \in Users |-> IdleCartFlow ]
    /\ writable = TRUE
    /\ payment_methods = Methods
    /\ user_emails = [ u \in Users |-> IF u = ShopUser THEN NoEmail ELSE UserEmail("a@x") ]
    /\ verify = {}
    /\ bind_flow = {}
    /\ files = [ orders |-> {},
                 products |-> products,
                 user_emails |-> user_emails,
                 payment_methods |-> payment_methods ]

\* What a /buy command may ask for in this shop: also more than the stock.
ShopBuyInputs == ConcBuyInputs

\* The shop at its front door: customers bind their email and ask to buy,
\* an operator switches payment methods, the process restarts.
NextShop ==
    \/ \E u \in Users, b \in ShopBuyInputs : BuyProduct(u, b[1], b[2])
    \/ \E u \in Users : BuyLocked(u)
    \/ \E u \in Users : BuyReplied(u)
    \/ \E u \in Users : SelectTimeout(u)
    \/ \E m \in Methods \cup { "card" }, enabled \in BOOLEAN : TogglePaymentMethod(m, enabled)
    \/ \E email \in Emails, code \in Codes : BindEmail(ShopUser, email, code)
    \/ \E success \in BOOLEAN : BindEmailDone(ShopUser, success)
    \/ \E code \in Codes : VerifyEmail(ShopUser, code)
    \/ Tick
    \/ Later
    \/ Restart

SpecShop == InitShop /\ [][NextShop]_vars

\* The shop with one customer, on a disk that may refuse writes, in a process
\* that may restart.  DiskOrders is the number of orders the customer places.
DiskOrders == 2

NextDisk ==
    \/ \E b \in BuyInputs : NoFlow /\ next_id <= DiskOrders /\ BuyProduct(ShopUser, b[1], b[2])
    \/ \E valid \in BOOLEAN : SelectMethod(ShopUser, valid)
    \/ SelectTimeout(ShopUser)
    \/ \E success \in BOOLEAN : GatewayDone(ShopUser, success)
    \/ \E no \in Numbers : PaymentCallback(no, TRUE, "success", TRUE)
    \/ \E i \in OrderIds, email_success \in BOOLEAN : AutoDeliverDone(i, email_success)
    \/ \E is_admin \in BOOLEAN, no \in Numbers : CancelOrder(ShopUser, is_admin, no)
    \/ \E no \in Numbers : DeliverOrder(no)
    \/ \E t \in timers : MonitorPayment(t[1], t[2])
    \/ CleanupExpiredOrders
    \/ Tick
    \/ Restart
    \/ \E b \in BOOLEAN : SetWritable(b)

SpecDisk == Init /\ [][NextDisk]_vars

\* The shop with one customer who buys singly and by cart, cancels, pays or
\* lets the orders run out.
TillInputs == Products \X { 1 }

\* The customer is in no checkout.
Quiet == flow[ShopUser].pc = "idle" /\ cart_flow[ShopUser].pc = "idle"

NextTill ==
    \/ \E c \in TillInputs : Quiet /\ carts[ShopUser] = << >> /\ AddToCart(ShopUser, c[1], c[2])
    \/ Quiet /\ BuyCart(ShopUser)
    \/ CartGatewayDone(ShopUser, TRUE)
    \/ \E b \in TillInputs : Quiet /\ carts[ShopUser] = << >> /\ BuyProduct(ShopUser, b[1], b[2])
    \/ BuyReplied(ShopUser)
    \/ SelectMethod(ShopUser, TRUE)
    \/ CreateReplied(ShopUser)
    \/ GatewayDone(ShopUser, TRUE)
    \/ \E no \in Numbers : PaymentCallback(no, TRUE, "success", TRUE)
    \/ \E i \in OrderIds : AutoDeliverLocked(i)
    \/ \E i \in OrderIds, email_success \in BOOLEAN : AutoDeliverDone(i, email_success)
    \/ \E no \in Numbers : CancelOrder(ShopUser, FALSE, no)
    \/ \E t \in timers : MonitorPayment(t[1], t[2])
    \/ CleanupExpiredOrders
    \/ Tick

SpecTill == Init /\ [][NextTill]_vars

\* The shop with one customer at the list of payment methods, while an
\* operator switches methods on and off.
NextChoice ==
    \/ \E b \in BuyInputs : BuyProduct(ShopUser, b[1], b[2])
    \/ \E valid \in BOOLEAN : SelectMethod(ShopUser, valid)
    \/ SelectTimeout(ShopUser)
    \/ \E success \in BOOLEAN : GatewayDone(ShopUser, success)
    \/ \E m \in Methods \cup { "card" }, enabled \in BOOLEAN : TogglePaymentMethod(m, enabled)
    \/ Tick

SpecChoice == Init /\ [][NextChoice]_vars

\* One customer writing to the shop from two chats (say in private and in a
\* group): a waiter holds only the chat it was started in, so a /buy in the
\* other chat is a new buy_product call of the same sender.
Chats == { ShopUser, Elsewhere }

InitChats ==
    /\ now = 0
    /\ products = [ p \in Products |->
                      [ quantity |-> InitQty, delivery_type |-> DeliveryType(p),
                        status |-> "active" ] ]
    /\ order_dict = [ i \in OrderIds |-> NoRecord ]
    /\ orders = NoEntries
    /\ next_id = 1
    /\ payment_monitors = NoEntries
    /\ timers = {}
    /\ product_locks = [ p \in Products |-> [ locked |-> FALSE, waiters |-> << >> ] ]
    /\ temp_orders = [ u \in Users |-> NoTemp ]
    /\ flow = [ s \in Chats |-> IdleFlow ]
    /\ deliver = [ i \in OrderIds |-> "none" ]
    /\ hist = [ i \in OrderIds |-> NoHist ]
    /\ carts = [ u \in Users |-> << >> ]
    /\ cart_flow = [ u \in Users |-> IdleCartFlow ]
    /\ writable = TRUE
    /\ payment_methods = Methods
    /\ user_emails = [ u \in Users |-> UserEmail("a@x") ]
    /\ verify = {}
    /\ bind_flow = {}
    /\ files = [ orders |-> {},
                 products |-> products,
                 user_emails |-> user_emails,
                 payment_methods |-> payment_methods ]

NextChats ==
    \/ \E s \in Chats, b \in Products \X (1..MaxQty) : BuyProduct(s, b[1], b[2])
    \/ \E s \in Chats, valid \in BOOLEAN : SelectMethod(s, valid)
    \/ \E s \in Chats : SelectTimeout(s)
    \/ \E s \in Chats, success \in BOOLEAN : GatewayDone(s, success)
    \/ Tick

SpecChats == InitChats /\ [][NextChats]_vars

\* ------------------------------------------------------------------ properties
\* Order dicts other than i.
Others(i) == OrderIds \ { i }

\* The order dict is the one the ledger holds under its number.
InLedger(i) ==
    /\ order_dict[i].status # "absent"
    /\ Lookup(order_dict[i].order_no) = i

\* The order dict is an auto-delivery order of the ledger whose payment
\* callback has run to its end.
AutoSettled(i) ==
    /\ InLedger(i)
    /\ order_dict[i].delivery_type = "auto"
    /\ hist[i].dispatched = 1
    /\ deliver[i] = "none"

\* Stock of product p taken by the fulfilments of the order dicts in S.
RECURSIVE TakenOf(_, _)
TakenOf(p, S) ==
    IF S = {} THEN 0
    ELSE LET i == CHOOSE x \in S : TRUE
         IN  (IF order_dict[i].product_id = p
              THEN hist[i].taken * order_dict[i].quantity ELSE 0)
             + TakenOf(p, S \ { i })

\* C1: however often the payment-success callback is delivered for an order,
\* one after the other or while the first is still delivering, fulfilment is
\* dispatched at most once, and exactly once when the order has been flipped to
\* paid; a call counted after the first dispatches nothing.
C1_DispatchOnce ==
    \A i \in OrderIds :
        /\ hist[i].dispatched <= 1
        /\ hist[i].dispatched = 1 <=> order_dict[i].paid_at # NoneStr
        /\ hist[i].calls >= 1 => hist[i].dispatched = 1

\* A second callback arrived while the first was awaiting the delivery email.
C1_Witness ==
    \E i \in OrderIds :
        hist[i].calls >= 2 /\ hist[i].dispatched = 1 /\ deliver[i] = "email"

\* C2: no product's quantity is ever negative, and what has left the stock is
\* exactly what the succeeding fulfilments took, never more than the initial
\* quantity: a fulfilment that finds the stock short changes nothing.
C2_StockNeverNegative ==
    \A p \in Products :
        /\ products[p].quantity >= 0
        /\ TakenOf(p, OrderIds) = InitQty - products[p].quantity
        /\ TakenOf(p, OrderIds) <= InitQty

\* Two paid auto-delivery orders asked for more than the stock: one fulfilment
\* took the stock, the other found it short.
C2_Witness ==
    \E i \in OrderIds : \E j \in Others(i) :
        /\ AutoSettled(i) /\ AutoSettled(j)
        /\ order_dict[i].product_id = order_dict[j].product_id
        /\ order_dict[i].quantity + order_dict[j].quantity > InitQty
        /\ hist[i].taken = 1 /\ hist[j].taken = 0
        /\ products[order_dict[i].product_id].quantity = 0

\* The status changes of the order state machine; "absent" to "pending" is the
\* creation of the order.
Legal ==
    { << "absent", "pending" >>, << "pending", "paid" >>, << "paid", "delivered" >>,
      << "pending", "cancelled" >>, << "pending", "expired" >> }

\* C3: every step that changes the status of an order dict makes one of the
\* four legal transitions, or creates the order as pending.
C3_LegalTransitions ==
    [][ \A i \in OrderIds :
          order_dict'[i].status # order_dict[i].status
          => << order_dict[i].status, order_dict'[i].status >> \in Legal ]_vars

\* One order went pending, paid, delivered; another left pending for cancelled.
C3_Witness ==
    \E i \in OrderIds : \E j \in Others(i) :
        /\ order_dict[i].status = "delivered" /\ order_dict[i].paid_at # NoneStr
        /\ order_dict[j].status = "cancelled"

\* The ledger holds an order in a final status under this number.
Final(order_no) ==
    /\ Lookup(order_no) # NoOrder
    /\ order_dict[Lookup(order_no)].status \in Terminal

\* Nothing of the orders, the stock or the fulfilments changes.
NoOp ==
    /\ UNCHANGED << order_dict, orders, products, product_locks, deliver >>
    /\ \A i \in OrderIds : /\ hist'[i].dispatched = hist[i].dispatched
                           /\ hist'[i].taken = hist[i].taken

\* One of the operations other than the sweep meets an order in a final
\* status.
MeetsFinal ==
    \/ \E no \in Numbers, c \in CallbackInputs :
          Final(no) /\ PaymentCallback(no, c[1], c[2], c[3])
    \/ \E u \in Users, is_admin \in BOOLEAN, no \in Numbers :
          Final(no) /\ CancelOrder(u, is_admin, no)
    \/ \E no \in Numbers : Final(no) /\ DeliverOrder(no)
    \/ \E t \in timers : Final(t[1]) /\ MonitorPayment(t[1], t[2])

\* The order dicts in a final status stay as they are.
FinalKept ==
    \A i \in OrderIds :
        order_dict[i].status \in Terminal => order_dict'[i] = order_dict[i]

\* C4: a payment callback, a cancel_order, a fired monitor or a deliver_order
\* that meets an order which is delivered, cancelled or expired changes no
\* field of any order, no stock, and dispatches nothing; a sweep changes no
\* order that is delivered, cancelled or expired.
C4_TerminalNoOp ==
    [][ /\ NoOp \/ ~MeetsFinal
        /\ FinalKept \/ ~CleanupExpiredOrders ]_vars

\* The sweep has expired an order whose monitor is due and still to fire, and
\* an order that callbacks reached twice is delivered.
C4_Witness ==
    /\ \E t \in timers :
          /\ now >= t[2] /\ Lookup(t[1]) # NoOrder
          /\ order_dict[Lookup(t[1])].status = "expired"
    /\ \E i \in OrderIds : order_dict[i].status = "delivered" /\ hist[i].calls >= 2

\* A payment callback whose signature does not match is handled.
BadSignature ==
    \E no \in Numbers, c \in CallbackInputs :
        ~c[3] /\ PaymentCallback(no, c[1], c[2], c[3])

\* C5: an order becomes paid only through a notification whose signature was
\* verified; a notification whose signature does not match leaves every order
\* as it is.
C5_SignatureVerified ==
    [][ UNCHANGED order_dict \/ ~BadSignature ]_vars

\* C6: once every monitor has fired and the sweep finds nothing to expire, no
\* order whose deadline has passed is still pending.
C6_UnpaidExpires ==
    (timers = {} /\ ExpiredOrders = {})
    => \A i \in OrderIds :
          ~(order_dict[i].status = "pending" /\ order_dict[i].expire_time < now)

\* C7: no order becomes paid at a time later than its expire_time.
C7_LateNotifyRejected ==
    [][ \A i \in OrderIds :
          (order_dict[i].status = "pending" /\ order_dict'[i].status = "paid")
          => now <= order_dict[i].expire_time ]_vars

\* C8: an order becomes expired only from pending and not before its
\* expire_time.
C8_ExpiredOnlyAfterDeadline ==
    [][ \A i \in OrderIds :
          (order_dict[i].status # "expired" /\ order_dict'[i].status = "expired")
          => (order_dict[i].status = "pending" /\ now >= order_dict[i].expire_time) ]_vars

\* No order ever created has been replaced in the ledger.
NoneReplaced ==
    \A i \in OrderIds : order_dict[i].status # "absent" => InLedger(i)

\* C9: an auto-delivery order whose fulfilment found the stock short and has
\* returned is cancelled (stated for ledgers in which no order was replaced).
C9_ShortStockCancels ==
    \A i \in OrderIds :
        (NoneReplaced /\ AutoSettled(i) /\ hist[i].taken = 0)
        => order_dict[i].status = "cancelled"

\* C10: of two paid orders for the one piece of an auto-delivery product, once
\* both callbacks have returned, one is delivered with the stock taken, the
\* other is cancelled, and the quantity is 0.
C10_OneDeliveredOneCancelled ==
    \A i \in OrderIds : \A j \in Others(i) :
        ( /\ AutoSettled(i) /\ AutoSettled(j)
          /\ order_dict[i].quantity = InitQty /\ order_dict[j].quantity = InitQty
          /\ hist[i].taken = 1 )
        => /\ order_dict[i].status = "delivered"
           /\ hist[j].taken = 0
           /\ order_dict[j].status = "cancelled"
           /\ products[order_dict[i].product_id].quantity = 0

\* C11: a step that makes a manual-delivery order paid takes the order's
\* quantity from the stock of its product.
C11_PaidTakesStock ==
    [][ \A i \in OrderIds :
          ( /\ order_dict[i].delivery_type = "manual"
            /\ order_dict[i].status = "pending"
            /\ order_dict'[i].status = "paid" )
          => products'[order_dict[i].product_id].quantity
               = products[order_dict[i].product_id].quantity - order_dict[i].quantity ]_vars

\* C12: no auto-delivery order of the ledger is paid while the stock, large
\* enough for it, has not been taken for it.
C12_PaidMeansTaken ==
    \A i \in OrderIds :
        ( /\ InLedger(i)
          /\ order_dict[i].delivery_type = "auto"
          /\ order_dict[i].status = "paid"
          /\ ~StockShort(i) )
        => hist[i].taken = 1

\* C14: delivered_at is never written to an order that holds one already: the
\* auto-delivery never completes on an order that has been delivered.
C14_DeliveredOnce ==
    [][ \A i \in OrderIds :
          ~(order_dict[i].delivered_at # NoneStr
              /\ \E email_success \in BOOLEAN : AutoDeliverDone(i, email_success)) ]_vars

\* C15: an order of the ledger that is paid or cancelled has no monitor asleep
\* and none registered under its number (stated for ledgers in which no order
\* was replaced).
C15_TimerCancelled ==
    \A i \in OrderIds :
        ( /\ NoneReplaced
          /\ InLedger(i)
          /\ order_dict[i].status \in { "paid", "cancelled" } )
        => /\ \A t \in timers : t[1] # order_dict[i].order_no
           /\ order_dict[i].order_no \notin DOMAIN payment_monitors

\* The caller may cancel the order: it is known, the caller owns it or is an
\* admin, and it is pending.
MayCancel(u, is_admin, order_no) ==
    /\ Lookup(order_no) # NoOrder
    /\ order_dict[Lookup(order_no)].user_id = u \/ is_admin
    /\ order_dict[Lookup(order_no)].status = "pending"

\* A cancel_order that must be rejected is handled.
CancelRejected ==
    \E u \in Users, is_admin \in BOOLEAN, no \in Numbers :
        ~MayCancel(u, is_admin, no) /\ CancelOrder(u, is_admin, no)

\* The order dict after its cancellation by user u.
Cancelled(d, u) ==
    [ d EXCEPT !.status = "cancelled",
               !.cancelled_at = Datetime,
               !.cancelled_by = IF d.user_id = u THEN "user" ELSE "admin" ]

\* C16: a cancel_order by the owner or an admin on a pending order makes the
\* order cancelled with the cancel time and the actor, and changes no other
\* order; any other cancel_order leaves every order record as it is.
C16_CancelRule ==
    [][ /\ UNCHANGED order_dict \/ ~CancelRejected
        /\ \A i \in OrderIds :
              (InLedger(i) /\ order_dict[i].status = "pending")
              => \A u \in Users, is_admin \in BOOLEAN :
                    ( /\ order_dict[i].user_id = u \/ is_admin
                      /\ CancelOrder(u, is_admin, order_dict[i].order_no) )
                    => order_dict' = [ order_dict EXCEPT ![i] = Cancelled(@, u) ] ]_vars

\* An admin has cancelled the order of a user, and a user their own.
C16_Witness ==
    \E i \in OrderIds : \E j \in Others(i) :
        /\ order_dict[i].status = "cancelled" /\ order_dict[i].cancelled_by = "admin"
        /\ order_dict[j].status = "cancelled" /\ order_dict[j].cancelled_by = "user"

\* No order, monitor or stock changes.
LedgerKept ==
    UNCHANGED << order_dict, orders, next_id, products, payment_monitors, timers >>

\* An answer that is no payment method is handled.
InvalidChoice == \E u \in Users : SelectMethod(u, FALSE)

\* C20: a selection of the payment method that ends without a choice (by its
\* timeout or because the temporary order is gone) creates no order, no
\* monitor, sends nothing to the gateway, changes no stock and removes the
\* user's temporary order; an invalid answer changes none of them either.
C20_AbandonedSelection ==
    [][ /\ \A u \in Users :
              (flow[u].pc = "select" /\ flow'[u].pc = "idle")
              => (LedgerKept /\ temp_orders'[u] = NoTemp)
        /\ LedgerKept \/ ~InvalidChoice ]_vars

\* A user is choosing the payment method while the ledger holds an order.
C20_Witness ==
    \E u \in Users :
        /\ flow[u].pc = "select" /\ temp_orders[u] # NoTemp
        /\ \E i \in OrderIds : order_dict[i].status = "pending"

\* Every line of the cart order is for an auto-delivery product.
AllAuto(items) ==
    items # << >> /\ \A k \in 1..Len(items) : items[k].delivery_type = "auto"

\* C13: a cart order of auto-delivery lines whose payment callback has run is
\* delivered, with the stock taken for it, or cancelled.
C13_CartAllOrNothing ==
    \A i \in OrderIds :
        ( /\ InLedger(i)
          /\ order_dict[i].product_id = "cart"
          /\ AllAuto(order_dict[i].cart_items)
          /\ hist[i].dispatched = 1 )
        => \/ order_dict[i].status = "delivered" /\ hist[i].taken = 1
           \/ order_dict[i].status = "cancelled"

\* A payment gateway request of a single purchase fails.
GatewayFails == \E u \in Users : GatewayDone(u, FALSE)

\* A payment gateway request of a cart checkout fails.
CartGatewayFails == \E u \in CartUsers : CartGatewayDone(u, FALSE)

\* C17: a failed gateway request, of a single purchase or of a cart checkout,
\* adds no order to the ledger, starts no monitor and leaves the carts as they
\* are.
C17_GatewayFailure ==
    [][ /\ (LedgerKept /\ UNCHANGED carts) \/ ~GatewayFails
        /\ (LedgerKept /\ UNCHANGED carts) \/ ~CartGatewayFails ]_vars

\* A single purchase and a cart checkout of a non-empty cart both await the
\* gateway.
C17_Witness ==
    /\ \E u \in Users : flow[u].pc = "gateway"
    /\ \E u \in CartUsers : cart_flow[u].pc = "gateway" /\ carts[u] # << >>

\* After the step the ledger holds the order that u's checkout has built.
RecordedAfter(u) ==
    LET o == cart_flow[u].order
    IN  /\ o.order_no \in DOMAIN orders'
        /\ order_dict'[orders'[o.order_no]] = o

RECURSIVE SumLines(_, _, _)
SumLines(items, k, priced) ==
    IF k = 0 THEN 0
    ELSE (IF priced THEN items[k].price * items[k].quantity ELSE items[k].quantity)
         + SumLines(items, k - 1, priced)

\* C19: the amount of a cart order is the sum of price times quantity over its
\* recorded lines, and its quantity the sum of their quantities.
C19_CartTotals ==
    \A i \in OrderIds :
        order_dict[i].product_id = "cart"
        => /\ order_dict[i].amount
                = SumLines(order_dict[i].cart_items, Len(order_dict[i].cart_items), TRUE)
           /\ order_dict[i].quantity
                = SumLines(order_dict[i].cart_items, Len(order_dict[i].cart_items), FALSE)

\* A cart order of two lines with different quantities is in the ledger, and
\* the cart has been filled again since.
C19_Witness ==
    \E i \in OrderIds :
        /\ InLedger(i) /\ order_dict[i].product_id = "cart"
        /\ Len(order_dict[i].cart_items) = 2
        /\ order_dict[i].cart_items[1].quantity # order_dict[i].cart_items[2].quantity
        /\ carts[order_dict[i].user_id] # << >>

\* The ledger holds a paid order under this number.
Paid(order_no) ==
    /\ Lookup(order_no) # NoOrder
    /\ order_dict[Lookup(order_no)].status = "paid"

\* A deliver_order that must be rejected is handled.
DeliverRejected == \E no \in Numbers : ~Paid(no) /\ DeliverOrder(no)

\* C26: a paid manual-delivery order has had its operators notified and stays
\* as it is until a deliver_order for its number makes it delivered; a
\* deliver_order makes the paid order of that number delivered and changes
\* nothing else, and changes no order when the number is unknown or the order
\* is not paid.
C26_ManualWaitsForOperator ==
    [][ /\ UNCHANGED order_dict \/ ~DeliverRejected
        /\ \A i \in OrderIds :
              /\ (order_dict[i].delivery_type = "manual" /\ order_dict[i].status = "paid")
                 => /\ hist[i].dispatched = 1
                    /\ \/ order_dict'[i] = order_dict[i]
                       \/ /\ order_dict'[i] = MarkDelivered(order_dict[i])
                          /\ InLedger(i)
                          /\ DeliverOrder(order_dict[i].order_no)
              /\ (InLedger(i) /\ order_dict[i].status = "paid"
                    /\ DeliverOrder(order_dict[i].order_no))
                 => order_dict' = [ order_dict EXCEPT ![i] = MarkDelivered(@) ] ]_vars

\* An operator has delivered a manual-delivery order, and another paid one is
\* waiting.
C26_Witness ==
    \E i \in OrderIds : \E j \in Others(i) :
        /\ order_dict[i].delivery_type = "manual" /\ order_dict[i].status = "delivered"
        /\ order_dict[j].delivery_type = "manual" /\ order_dict[j].status = "paid"

\* A coroutine is waiting for a message, an email or the payment gateway to be
\* sent, or for the user's choice of payment method.
IOInProgress ==
    \/ \E u \in Users :
          flow[u].pc \in { "buy_reply", "select", "create_reply", "gateway" }
    \/ \E u \in Users : cart_flow[u].pc = "gateway"
    \/ \E i \in OrderIds : deliver[i] = "email"

\* C29: while a message, an email or a gateway request is being sent, or a
\* choice of payment method awaited, no product lock is held.
C29_NoLockAcrossIO ==
    IOInProgress => \A p \in Products : ~product_locks[p].locked

\* C30: when the delivery email fails the order becomes delivered all the same
\* and the stock stays as the fulfilment left it; a manual-delivery order is
\* paid after the step that notifies the operators, whatever the notification
\* returns.
C30_FailedNotifyKeepsState ==
    [][ \A i \in OrderIds :
          /\ (deliver[i] = "email" /\ AutoDeliverDone(i, FALSE))
             => /\ order_dict'[i] = MarkDelivered(order_dict[i])
                /\ products' = products
          /\ (order_dict[i].delivery_type # "auto"
                /\ hist'[i].dispatched = hist[i].dispatched + 1)
             => order_dict'[i] = MarkPaid(order_dict[i]) ]_vars

\* An auto-delivery order is delivered with its stock taken, and the operators
\* have been notified of a paid manual-delivery order.
C30_Witness ==
    \E i \in OrderIds : \E j \in Others(i) :
        /\ order_dict[i].delivery_type = "auto" /\ order_dict[i].status = "delivered"
        /\ hist[i].taken = 1
        /\ products[order_dict[i].product_id].quantity = InitQty - order_dict[i].quantity
        /\ order_dict[j].delivery_type = "manual" /\ order_dict[j].status = "paid"
        /\ hist[j].dispatched = 1


\* What buy_product refuses before the lock (lines 511-533): a customer without
\* a verified email, a product that is unknown or not on sale, a quantity that
\* is not positive.
RefusedAtDoor(u, p, q) ==
    \/ ~user_emails[u].verified
    \/ p \notin Products
    \/ products[p].status # "active"
    \/ q <= 0

\* What buy_product refuses once it has the lock (lines 537-555): more than
\* the stock, or no payment method enabled.
RefusedAtStock(p, q) ==
    \/ products[p].quantity < q
    \/ payment_methods = {}

\* Nothing buy_product could have written has changed.
NothingBought ==
    UNCHANGED << temp_orders, order_dict, orders, next_id, products, files,
                 payment_monitors, timers >>

\* C21: a /buy that fails a precondition (no verified email, unknown or
\* inactive product, quantity not positive, stock short, no payment method
\* enabled) stores no temporary order and writes nothing; when the handler
\* has ended, the product lock is free again: a lock is only ever held by a
\* handler that is still sending its "out of stock" reply.
C21_RefusedBuyChangesNothing ==
    [][ /\ \A u \in Users, b \in ShopBuyInputs :
             /\ (BuyProduct(u, b[1], b[2]) /\ RefusedAtDoor(u, b[1], b[2]))
                => /\ NothingBought
                   /\ UNCHANGED << flow, product_locks >>
             /\ (/\ BuyProduct(u, b[1], b[2])
                 /\ ~RefusedAtDoor(u, b[1], b[2])
                 /\ LockFree(b[1])
                 /\ RefusedAtStock(b[1], b[2]))
                => /\ NothingBought
                   /\ flow'[u].pc \in { "idle", "buy_reply" }
                   /\ flow'[u].pc = "idle" => UNCHANGED product_locks
        /\ \A u \in Users :
             /\ (BuyLocked(u) /\ RefusedAtStock(flow[u].product_id, flow[u].quantity))
                => /\ NothingBought
                   /\ flow'[u].pc \in { "idle", "buy_reply" }
             /\ BuyReplied(u)
                => /\ NothingBought
                   /\ flow'[u] = IdleFlow
                   /\ product_locks'[flow[u].product_id].waiters
                        = product_locks[flow[u].product_id].waiters
        /\ \A p \in Products :
             product_locks'[p].locked
                => \E u \in Users : /\ flow'[u].pc = "buy_reply"
                                    /\ flow'[u].product_id = p ]_vars

\* With every payment method switched off, a /buy for more than the stock is
\* being refused: its reply is on the way, no temporary order was stored for
\* the customer.
C21_Witness ==
    \E u \in Users :
        /\ flow[u].pc = "buy_reply"
        /\ temp_orders[u] = NoTemp
        /\ payment_methods = {}

\* The record of order dict i as orders.json holds it.
OnDisk(i) == { r \in files.orders : r.order_no = order_dict[i].order_no }

\* C22: a status transition is written to storage before anything of it can
\* be observed from outside: while the delivery email of an order is being
\* sent, orders.json already holds the order as "delivered".
C22_WrittenBeforeObserved ==
    \A i \in OrderIds :
        (InLedger(i) /\ deliver[i] = "email")
            => \E r \in OnDisk(i) : r.status = "delivered"

\* C23: when the write to storage fails, the operation does not go on to
\* fulfilment or notification: whenever fulfilment is dispatched for an order,
\* orders.json holds the order as the process holds it.
C23_NoFulfilmentWithoutWrite ==
    [][ \A i \in OrderIds :
          hist'[i].dispatched > hist[i].dispatched
              => Dump(order_dict'[i]) \in files'.orders ]_vars

\* C24: what was saved is what is loaded: an order that orders.json holds as
\* the process holds it comes back from a restart with every field as it
\* was, its timestamps timestamps again.
C24_SaveLoadRoundTrip ==
    [][ \/ \A i \in OrderIds :
              (InLedger(i) /\ Dump(order_dict[i]) \in files.orders)
                  => order_dict'[i] = order_dict[i]
        \/ ~Restart ]_vars

\* C25: after a restart the sweep expires every order that was stored pending
\* and whose deadline has passed: once a pass of the sweep finds nothing to
\* expire, no reloaded order of the ledger is pending past its deadline.
C25_SweepRecoversAfterRestart ==
    ExpiredOrders = {}
    => \A i \in OrderIds :
          ~( /\ InLedger(i)
             /\ order_dict[i].status = "pending"
             /\ IsStr(order_dict[i].expire_time)
             /\ TimeOf(order_dict[i].expire_time) < now )

\* The challenges of user u that verify_email still takes.
Unexpired(u) == { c \in ChallengeOf(u) : c.expire_time >= now }

\* C27: a verification challenge survives a restart: a challenge that has not
\* expired when the process restarts is still there afterwards, for
\* verify_email to take its code.
C27_ChallengeSurvivesRestart ==
    [][ (\A u \in Users : Unexpired(u) \subseteq verify') \/ ~Restart ]_vars

\* C28: a binding changes only when verify_email is given the code of the
\* user's current, unexpired challenge; the binding is then that challenge's
\* email, verified, and the challenge is gone.  A verify_email with any other
\* code, or with a challenge that has expired, changes no binding, and the
\* expired challenge is discarded; bind_email changes no binding.
C28_BindingOnlyByChallenge ==
    [][ \A u \in Users :
          /\ user_emails'[u] # user_emails[u]
                => \E c \in Unexpired(u), code \in Codes :
                      /\ c.code = code
                      /\ VerifyEmail(u, code)
                      /\ user_emails'[u] = [ email |-> c.email, verified |-> TRUE ]
                      /\ ChallengeOf(u)' = {}
          /\ \A code \in Codes :
                (VerifyEmail(u, code) /\ ~\E c \in Unexpired(u) : c.code = code)
                    => /\ UNCHANGED user_emails
                       /\ Unexpired(u) = {} => ChallengeOf(u)' = {}
          /\ \A email \in Emails, code \in Codes :
                BindEmail(u, email, code) => UNCHANGED user_emails ]_vars

\* The customer who had no email is bound to the second address, verified,
\* and the challenge that was used is gone.
C28_Witness ==
    /\ user_emails[ShopUser] = [ email |-> "b@x", verified |-> TRUE ]
    /\ ChallengeOf(ShopUser) = {}

\* The product lock is free for _auto_deliver of order dict i to take now.
LockTakenBy(i) ==
    LET l == product_locks[order_dict[i].product_id]
    IN  /\ ~l.locked
        /\ l.waiters = << >> \/ Head(l.waiters) = Task("deliver", NoUser, i)

\* C31: the stock of a product changes only in the decrement of an
\* auto-delivery that has the product's lock, by the quantity of its paid
\* order; a step that creates an order (singly or from a cart), cancels one or
\* expires one (by its monitor or by the sweep) leaves every quantity as it is.
C31_StockOnlyByAutoDeliver ==
    [][ \/ UNCHANGED products
        \/ /\ \E i \in OrderIds :
                /\ order_dict[i].delivery_type = "auto"
                /\ order_dict'[i].status = "paid"
                /\ LockTakenBy(i)
                /\ products' = Decrement(i)
           /\ UNCHANGED << orders, next_id >>
           /\ \A j \in OrderIds :
                order_dict'[j].status \in { "cancelled", "expired" }
                    => order_dict'[j].status = order_dict[j].status ]_vars

\* Stock has been taken for a delivery, and an order made from a cart has been
\* cancelled or has expired with the stock of its lines where it was.
C31_Witness ==
    /\ \E i \in OrderIds : hist[i].taken = 1 /\ products[order_dict[i].product_id].quantity = 0
    /\ \E j \in OrderIds :
          /\ order_dict[j].cart_items # << >>
          /\ order_dict[j].status \in { "cancelled", "expired" }
          /\ \A k \in 1..Len(order_dict[j].cart_items) :
                products[order_dict[j].cart_items[k].product_id].quantity = InitQty

\* C32: an order that the ledger holds is held for good: no creation of a
\* later order, by anyone at any time, takes its number and with it its place
\* in the ledger.
C32_OrdersNeverReplaced ==
    [][ \A i \in OrderIds :
          InLedger(i) => /\ order_dict'[i].order_no \in DOMAIN orders'
                         /\ orders'[order_dict'[i].order_no] = i ]_vars

\* C33: deliver_order with delivery content on a paid order makes the order
\* delivered, attempts the email to the buyer and reports to the operator that
\* the email was sent or that it failed; it does not end in an error after the
\* status change.
C33_DeliverReports ==
    [][ \/ UNCHANGED order_dict
        \/ \A no \in Numbers :
              (DeliverAccepts(no) /\ DeliverOrder(no))
                  => LET d == order_dict'[Lookup(no)]
                     IN  /\ d.status = "delivered"
                         /\ \A email_success \in BOOLEAN :
                               DeliverReport(d, TRUE, email_success)
                                   \in { "emailed", "email failed" } ]_vars

\* The user's answer starts _create_final_order.
CreationBegins(u) ==
    /\ flow[u].pc = "select"
    /\ flow'[u].pc \in { "create_lock", "create_reply", "gateway" }

\* C34: the payment method a single-purchase order is created with is enabled
\* when the creation begins, also when an operator has switched methods since
\* the choices were displayed.
C34_MethodEnabledAtCreation ==
    [][ \A u \in Users :
          CreationBegins(u) => ChosenMethod(u) \in payment_methods ]_vars

\* C35: a successful cart checkout removes from the cart the lines it ordered
\* and no others: when the order is recorded and the cart deleted, the cart
\* holds exactly the order's line items, whatever the user did to the cart
\* while the payment gateway was awaited.
C35_CheckoutRemovesWhatItOrdered ==
    [][ \A u \in CartUsers :
          ( /\ cart_flow[u].pc = "gateway"
            /\ cart_flow'[u].pc = "idle"
            /\ next_id' = next_id + 1 )
          => carts[u] = cart_flow[u].order.cart_items ]_vars

\* C36: the product and the quantity _create_final_order is called with are
\* those of the buy command that opened the selection, also when the same
\* user has sent another buy command before answering.
C36_OrderIsOfItsBuyCommand ==
    [][ \A s \in DOMAIN flow :
          ( /\ flow[s].pc = "select"
            /\ flow'[s].pc \in { "create_lock", "create_reply", "gateway" } )
          => /\ flow'[s].product_id = flow[s].product_id
             /\ flow'[s].quantity = flow[s].quantity ]_vars

\* C37: in every reachable state every order dict has the timestamps of its
\* status: paid or delivered has paid_at; delivered has delivered_at;
\* cancelled has cancelled_at and cancelled_by "user" or "admin"; pending or
\* expired has no paid_at.
C37_StatusHasItsTimestamps ==
    \A i \in OrderIds :
        LET d == order_dict[i]
        IN  /\ d.status \in { "paid", "delivered" } => d.paid_at # NoneStr
            /\ d.status = "delivered" => d.delivered_at # NoneStr
            /\ d.status = "cancelled" => /\ d.cancelled_at # NoneStr
                                         /\ d.cancelled_by \in { "user", "admin" }
            /\ d.status \in { "pending", "expired" } => d.paid_at = NoneStr

\* Orders in each of the five statuses at once are out of reach of two order
\* dicts; the witness has a delivered order next to a cancelled one.
C37_Witness ==
    /\ \E i \in OrderIds : order_dict[i].status = "delivered"
    /\ \E i \in OrderIds : order_dict[i].status = "cancelled"

\* C38: stock is taken at most once for an order and only for a paid one: for
\* every product the initial quantity less the current quantity is the sum of
\* the quantities of the orders the decrement was made for, and each of those
\* is an auto-delivery order that is paid or delivered.
C38_StockTakenOncePerPaidOrder ==
    /\ \A p \in Products :
          InitQty - products[p].quantity = TakenOf(p, OrderIds)
    /\ \A i \in OrderIds :
          /\ hist[i].taken <= 1
          /\ hist[i].taken = 1 => /\ order_dict[i].delivery_type = "auto"
                                  /\ order_dict[i].status \in { "paid", "delivered" }

\* The stock of a product has been taken for an order that is still paid:
\* its delivery email is on its way.
C38_Witness ==
    \E i \in OrderIds :
        /\ hist[i].taken = 1
        /\ order_dict[i].status = "paid"
        /\ products[order_dict[i].product_id].quantity
               = InitQty - order_dict[i].quantity

\* The tasks inside `async with` of product p: each is parked at a reply.
HoldersOf(p) ==
    { u \in DOMAIN flow : /\ flow[u].pc \in { "buy_reply", "create_reply" }
                          /\ flow[u].product_id = p }

\* The queued task is waiting for the lock and is inside no `async with`.
WaitsOnly(task) ==
    IF task.kind = "buy" THEN flow[task.u].pc = "buy_lock"
    ELSE IF task.kind = "create" THEN flow[task.u].pc = "create_lock"
    ELSE deliver[task.i] = "lock"

\* A locked lock has one holder, and no task in a queue holds a lock.
NoNestedLock ==
    \A p \in Products :
        /\ product_locks[p].locked => Cardinality(HoldersOf(p)) = 1
        /\ \A k \in 1..Len(product_locks[p].waiters) :
              WaitsOnly(product_locks[p].waiters[k])

\* C39: every product lock that is taken is given back, no task waits for a
\* lock while it holds one, and so, on an event loop that runs every ready
\* task, no buy_product, _create_final_order or _auto_deliver waits for a
\* product lock for ever.
C39_LocksAreReleased ==
    /\ []NoNestedLock
    /\ \A p \in Products :
          product_locks[p].locked ~> ~product_locks[p].locked
    /\ \A u \in Users :
          flow[u].pc \in { "buy_lock", "create_lock" }
              ~> flow[u].pc \notin { "buy_lock", "create_lock" }
    /\ \A i \in OrderIds : deliver[i] = "lock" ~> deliver[i] # "lock"

\* A lock is held by a handler parked at its reply while another task is
\* queued for it.
C39_Witness ==
    \E p \in Products :
        /\ product_locks[p].locked
        /\ product_locks[p].waiters # << >>
====
